---- MODULE Spec2Model ----
(***************************************************************************)
(* A model of the eq_archive reader: the nom parser of src/parser.rs       *)
(* (header, entry table, footer, block-chain walk) and the facade of       *)
(* src/lib.rs (filenames, get, files, decompress).                         *)
(*                                                                         *)
(* The input buffer is a sequence of bytes.  A byte ranges over            *)
(* 0 .. ByteBase-1 and a u32 is four little-endian bytes, so u32           *)
(* arithmetic is arithmetic modulo ByteBase^4.  With ByteBase = 128 every  *)
(* byte is an ASCII character and a u32 has 28 bits, which keeps all       *)
(* values inside TLC's integers while subtraction can still underflow.     *)
(***************************************************************************)
EXTENDS Integers, Sequences, FiniteSets, TLC

(* ------------------------------ bounds -------------------------------- *)

ByteBase == 128

Modulus == ByteBase * ByteBase * ByteBase * ByteBase

MaxU32 == Modulus - 1

(* --------------------------- program constants ------------------------ *)

HEADER_SIZE == 12

BLOCK_HEADER_SIZE == 8

(* ----------------------------- byte slices ---------------------------- *)

\* &s[n..] for n <= s.len()
Drop(s, n) == SubSeq(s, n + 1, Len(s))

\* nom's Err(Error((input, ErrorKind))) ; the payload is never inspected
ParseErr == [ok |-> FALSE]

ParseOk(v, rest) == [ok |-> TRUE, val |-> v, rest |-> rest]

\* nom::number::complete::le_u32
le_u32(i) ==
    IF Len(i) < 4 THEN ParseErr
    ELSE ParseOk(i[1] + ByteBase * i[2] + ByteBase * ByteBase * i[3]
                   + ByteBase * ByteBase * ByteBase * i[4],
                 Drop(i, 4))

\* nom::bytes::complete::take(n)
take(n, i) ==
    IF Len(i) < n THEN ParseErr
    ELSE ParseOk(SubSeq(i, 1, n), Drop(i, n))

\* tuple((le_u32, le_u32, le_u32)) as used by header and entry
tuple3(i) ==
    LET a == le_u32(i) IN
    IF ~a.ok THEN ParseErr ELSE
    LET b == le_u32(a.rest) IN
    IF ~b.ok THEN ParseErr ELSE
    LET c == le_u32(b.rest) IN
    IF ~c.ok THEN ParseErr ELSE
    ParseOk(<<a.val, b.val, c.val>>, c.rest)

header(input) ==
    LET t == tuple3(input) IN
    IF ~t.ok THEN ParseErr
    ELSE ParseOk([pointer |-> t.val[1], magic_number |-> t.val[2],
                  version |-> t.val[3]], t.rest)

\* blocks: None is [some |-> FALSE, seq |-> <<>>]
NoBlocks == [some |-> FALSE, seq |-> <<>>]

SomeBlocks(bs) == [some |-> TRUE, seq |-> bs]

entry(input) ==
    LET t == tuple3(input) IN
    IF ~t.ok THEN ParseErr
    ELSE ParseOk([filename_crc |-> t.val[1], pointer |-> t.val[2],
                  uncompressed_size |-> t.val[3], blocks |-> NoBlocks],
                 t.rest)

block(input) ==
    LET c == le_u32(input) IN
    IF ~c.ok THEN ParseErr ELSE
    LET u == le_u32(c.rest) IN
    IF ~u.ok THEN ParseErr ELSE
    LET d == take(c.val, u.rest) IN
    IF ~d.ok THEN ParseErr
    ELSE ParseOk([compressed_size |-> c.val, uncompressed_size |-> u.val,
                  data |-> d.val], d.rest)

footer(input) ==
    LET s == take(5, input) IN
    IF ~s.ok THEN ParseErr ELSE
    LET t == le_u32(s.rest) IN
    IF ~t.ok THEN ParseErr
    ELSE ParseOk([footer_string |-> s.val, timestamp |-> t.val], t.rest)

\* nom::multi::count(entry, n)
RECURSIVE count_entry(_, _)
count_entry(n, i) ==
    IF n = 0 THEN ParseOk(<<>>, i)
    ELSE LET e == entry(i) IN
         IF ~e.ok THEN ParseErr ELSE
         LET r == count_entry(n - 1, e.rest) IN
         IF ~r.ok THEN ParseErr
         ELSE ParseOk(<<e.val>> \o r.val, r.rest)

\* slice::sort_by_key(|a| a.pointer): a stable sort, here by insertion
RECURSIVE insert_by_pointer(_, _)
insert_by_pointer(sorted, e) ==
    IF sorted = <<>> THEN <<e>>
    ELSE IF sorted[Len(sorted)].pointer <= e.pointer
         THEN Append(sorted, e)
         ELSE Append(insert_by_pointer(SubSeq(sorted, 1, Len(sorted) - 1), e),
                     sorted[Len(sorted)])

RECURSIVE sort_by_pointer_from(_, _)
sort_by_pointer_from(acc, es) ==
    IF es = <<>> THEN acc
    ELSE sort_by_pointer_from(insert_by_pointer(acc, Head(es)), Tail(es))

\* the same call with the sort left out
sort_by_key_pointer_unsorted(es) == es

sort_by_key_pointer(es) == sort_by_pointer_from(<<>>, es)

\* what `archive` has done when it reaches the map over the entries:
\* st is "ok", "err" (a nom error, returned through `?`) or "panic"
TableErr == [st |-> "err", header |-> [pointer |-> 0, magic_number |-> 0,
                                        version |-> 0],
             data |-> <<>>, entry_count |-> 0, entries |-> <<>>]

TablePanic == [TableErr EXCEPT !.st = "panic"]

\* header.pointer - HEADER_SIZE and e.pointer - HEADER_SIZE, on u32: with
\* overflow checks an underflow panics (-1 here), without them it wraps
sub_header_size(pointer, checks) ==
    IF pointer < HEADER_SIZE /\ checks THEN 0 - 1
    ELSE (pointer - HEADER_SIZE) % Modulus

\* lines 103-108 of `archive`: header, data region, entry count, entry
\* records, footer, and the sort of the entries
archive_table(input, checks) ==
    LET h == header(input) IN
    IF ~h.ok THEN TableErr ELSE
    LET n == sub_header_size(h.val.pointer, checks) IN
    IF n < 0 THEN TablePanic ELSE
    LET d == take(n, h.rest) IN
    IF ~d.ok THEN TableErr ELSE
    LET c == le_u32(d.rest) IN
    IF ~c.ok THEN TableErr ELSE
    LET es == count_entry(c.val, c.rest) IN
    IF ~es.ok THEN TableErr ELSE
    LET f == footer(es.rest) IN
    IF ~f.ok THEN TableErr
    ELSE [st |-> "ok", header |-> h.val, data |-> d.val,
          entry_count |-> c.val, entries |-> sort_by_key_pointer(es.val)]

\* an advance that forgets the two size fields
advance_payload_only(offset, b) == offset + b.compressed_size

\* offset += (BLOCK_HEADER_SIZE + b.compressed_size) as usize; the u32 sum
\* cannot exceed the length of the data region once block() has succeeded
advance(offset, b) == offset + (BLOCK_HEADER_SIZE + b.compressed_size)

(* ------------------------------ src/lib.rs ---------------------------- *)

\* first byte of a zlib stream (0x78)
ZlibMagic == 120

Panic == [tag |-> "panic", val |-> <<>>]

Ok(v) == [tag |-> "ok", val |-> v]

\* ZlibDecoder::new(data).read_to_end(&mut buf): the codec is abstracted to
\* its stored form, a stream is the magic byte followed by the literal
\* bytes; anything else is a read error.
Inflate(d) ==
    IF Len(d) >= 1 /\ d[1] = ZlibMagic THEN Ok(Tail(d)) ELSE Panic

RECURSIVE flat_map_inflate(_)
flat_map_inflate(bs) ==
    IF bs = <<>> THEN Ok(<<>>)
    ELSE LET h == Inflate(Head(bs).data) IN
         IF h.tag = "panic" THEN Panic ELSE
         LET t == flat_map_inflate(Tail(bs)) IN
         IF t.tag = "panic" THEN Panic ELSE Ok(h.val \o t.val)

\* Entry::decompress
decompress(e) ==
    IF ~e.blocks.some THEN Panic ELSE flat_map_inflate(e.blocks.seq)

\* String::from_utf8 on bytes below 0x81: valid exactly when all are ASCII
from_utf8_ok(bytes) == \A k \in 1..Len(bytes) : bytes[k] < 128

RECURSIVE trim_end_nul(_)
trim_end_nul(s) ==
    IF s # <<>> /\ s[Len(s)] = 0 THEN trim_end_nul(SubSeq(s, 1, Len(s) - 1))
    ELSE s

DirErr == [st |-> "err", val |-> <<>>, rest |-> <<>>]

DirPanic == [st |-> "panic", val |-> <<>>, rest |-> <<>>]

DirOk(v, rest) == [st |-> "ok", val |-> v, rest |-> rest]

directory_string(input) ==
    LET l == le_u32(input) IN
    IF ~l.ok THEN DirErr ELSE
    LET d == take(l.val, l.rest) IN
    IF ~d.ok THEN DirErr
    ELSE IF ~from_utf8_ok(d.val) THEN DirPanic
    ELSE DirOk(trim_end_nul(d.val), d.rest)

\* nom::multi::count(directory_string, n)
RECURSIVE count_directory_string(_, _)
count_directory_string(n, i) ==
    IF n = 0 THEN DirOk(<<>>, i)
    ELSE LET s == directory_string(i) IN
         IF s.st # "ok" THEN s ELSE
         LET r == count_directory_string(n - 1, s.rest) IN
         IF r.st # "ok" THEN r
         ELSE DirOk(<<s.val>> \o r.val, r.rest)

directory(input) ==
    LET c == le_u32(input) IN
    IF ~c.ok THEN DirErr
    ELSE count_directory_string(c.val, c.rest)

\* Archive::filenames
filenames(es) ==
    IF es = <<>> THEN Panic ELSE
    LET uncompressed_blocks == decompress(es[Len(es)]) IN
    IF uncompressed_blocks.tag = "panic" THEN Panic ELSE
    LET r == directory(uncompressed_blocks.val) IN
    IF r.st # "ok" THEN Panic ELSE Ok(r.val)

\* u8::to_ascii_lowercase
to_ascii_lowercase(b) == IF b >= 65 /\ b <= 90 THEN b + 32 ELSE b

\* the same comparison made case sensitive
eq_ignore_ascii_case_exact(f, g) == f = g

\* str::eq_ignore_ascii_case
eq_ignore_ascii_case(f, g) ==
    /\ Len(f) = Len(g)
    /\ \A k \in 1..Len(f) : to_ascii_lowercase(f[k]) = to_ascii_lowercase(g[k])

None == [tag |-> "none", val |-> <<>>]

Some(v) == [tag |-> "some", val |-> v]

\* a lookup that falls back to the first slot when nothing matches
position_or_first(fs, filename) ==
    LET hits == {k \in 1..Len(fs) : eq_ignore_ascii_case(fs[k], filename)} IN
    IF hits = {} THEN 1
    ELSE CHOOSE k \in hits : \A j \in hits : k <= j

\* Iterator::position(|f| f.eq_ignore_ascii_case(filename)); 1-based, 0 = None
position(fs, filename) ==
    LET hits == {k \in 1..Len(fs) : eq_ignore_ascii_case(fs[k], filename)} IN
    IF hits = {} THEN 0
    ELSE CHOOSE k \in hits : \A j \in hits : k <= j

\* Archive::get
get(es, filename) ==
    LET fs == filenames(es) IN
    IF fs.tag = "panic" THEN Panic ELSE
    LET p == position(fs.val, filename) IN
    IF p = 0 \/ p > Len(es) THEN None ELSE
    LET d == decompress(es[p]) IN
    IF d.tag = "panic" THEN Panic ELSE Some(d.val)

Min(a, b) == IF a <= b THEN a ELSE b

\* the zip of Archive::files, driven to its end: the pairs it yields, and
\* a panic when a decompress panics on the way
RECURSIVE zip_decompress(_, _, _)
zip_decompress(fs, es, k) ==
    IF k > Min(Len(fs), Len(es)) THEN Ok(<<>>)
    ELSE LET d == decompress(es[k]) IN
         IF d.tag = "panic" THEN Panic ELSE
         LET t == zip_decompress(fs, es, k + 1) IN
         [tag |-> t.tag, val |-> <<[name |-> fs[k], bytes |-> d.val]>> \o t.val]

\* Archive::files
files(es) ==
    LET fs == filenames(es) IN
    IF fs.tag = "panic" THEN Panic ELSE zip_decompress(fs.val, es, 1)

(* ------------------------- the input buffers -------------------------- *)
(* Buffers are laid out as in the format: header, data region, entry      *)
(* count, entry records, footer.  Well-formed and malformed ones are both *)
(* enumerated.                                                            *)

EncU32(n) ==
    << n % ByteBase, (n \div ByteBase) % ByteBase,
       (n \div (ByteBase * ByteBase)) % ByteBase,
       (n \div (ByteBase * ByteBase * ByteBase)) % ByteBase >>

RECURSIVE Flatten(_)
Flatten(ss) == IF ss = <<>> THEN <<>> ELSE Head(ss) \o Flatten(Tail(ss))

\* a block whose declared sizes are c and u, followed by the payload
EncBlock(c, u, payload) == EncU32(c) \o EncU32(u) \o payload

\* a stream Inflate accepts, yielding bytes
Deflate(bytes) == <<ZlibMagic>> \o bytes

EncEntry(crc, ptr, usz) == EncU32(crc) \o EncU32(ptr) \o EncU32(usz)

EncStr(str) == EncU32(Len(str)) \o str

EncDir(fc, strs) ==
    EncU32(fc) \o Flatten([k \in 1..Len(strs) |-> EncStr(strs[k])])

\* block chains of a file entry: the declared size of the entry, its bytes
Chains ==
    { [usz |-> 0, bytes |-> <<>>],
      [usz |-> 1, bytes |-> EncBlock(2, 1, Deflate(<<7>>))],
      [usz |-> 3, bytes |-> EncBlock(2, 1, Deflate(<<7>>))
                              \o EncBlock(3, 2, Deflate(<<8, 9>>))],
      [usz |-> 2, bytes |-> EncBlock(1, 0, Deflate(<<>>))
                              \o EncBlock(3, 2, Deflate(<<8, 9>>))],
      [usz |-> 2, bytes |-> EncBlock(0, 0, <<>>)
                              \o EncBlock(3, 2, Deflate(<<8, 9>>))],
      [usz |-> 1, bytes |-> EncBlock(2, 2, Deflate(<<7>>))
                              \o EncBlock(0, MaxU32, <<>>)],
      [usz |-> 1, bytes |-> EncBlock(3, 2, Deflate(<<8, 9>>))],
      [usz |-> 1, bytes |-> EncBlock(100, 1, Deflate(<<7>>))],
      [usz |-> 1, bytes |-> EncBlock(2, 1, <<0, 7>>)] }

PlainChains ==
    { [usz |-> 1, bytes |-> EncBlock(2, 1, Deflate(<<7>>))],
      [usz |-> 3, bytes |-> EncBlock(2, 1, Deflate(<<7>>))
                              \o EncBlock(3, 2, Deflate(<<8, 9>>))] }

\* directory payloads: the declared file_count and the stored strings
Dirs ==
    { [fc |-> 2, strs |-> << <<97, 0>>, <<98, 0>> >>],
      [fc |-> 2, strs |-> << <<97, 0>>, <<65, 0>> >>],
      [fc |-> 2, strs |-> << <<97, 66, 0, 0>>, <<98>> >>],
      [fc |-> 1, strs |-> << <<97, 0>> >>],
      [fc |-> 3, strs |-> << <<97, 0>>, <<98, 0>>, <<97, 66, 0>> >>],
      [fc |-> 3, strs |-> << <<97, 0>>, <<98, 0>> >>] }

DirBlock(dir) ==
    LET plain == EncDir(dir.fc, dir.strs) IN
    [usz |-> Len(plain),
     bytes |-> EncBlock(Len(plain) + 1, Len(plain), Deflate(plain))]

RECURSIVE StartOf(_, _)
StartOf(pieces, k) ==
    IF k = 1 THEN 0 ELSE StartOf(pieces, k - 1) + Len(pieces[k - 1].bytes)

FooterBytes == <<83, 84, 69, 86, 69>> \o EncU32(1)

\* the directory pointer a buffer declares: the true one, two values below
\* the header size, or one beyond the end of the buffer
DirectoryPointer(hp, dataLen) ==
    CASE hp = "true" -> HEADER_SIZE + dataLen
      [] hp = "zero" -> 0
      [] hp = "eleven" -> HEADER_SIZE - 1
      [] hp = "far" -> HEADER_SIZE + dataLen + 50

\* pieces: the chains in layout order (the directory last);
\* perm: the order of the entry records in the table;
\* hp: the directory pointer written, see DirectoryPointer;
\* ptrs: what is added to each entry's true data pointer
Layout(pieces, perm, hp, ptrs) ==
    LET data == Flatten([k \in 1..Len(pieces) |-> pieces[k].bytes])
        \* the record at table position t, of piece perm[t]; the name hash
        \* field carries t
        rec(t) == EncEntry(t, HEADER_SIZE + StartOf(pieces, perm[t])
                                + ptrs[perm[t]],
                           pieces[perm[t]].usz)
    IN  EncU32(DirectoryPointer(hp, Len(data))) \o EncU32(77) \o EncU32(1)
          \o data
          \o EncU32(Len(perm))
          \o Flatten([t \in 1..Len(perm) |-> rec(t)])
          \o FooterBytes

\* one file entry and the directory, in either table order
TwoEntryInputs ==
    { Layout(<<c, DirBlock(d)>>, perm, "true", <<0, 0>>) :
        c \in Chains, d \in Dirs, perm \in {<<1, 2>>, <<2, 1>>} }

\* the directory alone, and no entry at all
SmallInputs ==
    { Layout(<<DirBlock(d)>>, <<1>>, "true", <<0>>) : d \in Dirs }
      \cup { Layout(<<>>, <<>>, "true", <<>>) }

\* two file entries and the directory
ThreeEntryInputs ==
    { Layout(<<c1, c2, DirBlock(d)>>, perm, "true", <<0, 0, 0>>) :
        c1 \in PlainChains, c2 \in PlainChains,
        d \in {x \in Dirs : x.fc = 3},
        perm \in {<<1, 2, 3>>, <<3, 1, 2>>, <<2, 3, 1>>} }

\* a directory pointer below the header size, or beyond the buffer
BadHeaderInputs ==
    { Layout(<<c, DirBlock(d)>>, <<1, 2>>, hp, <<0, 0>>) :
        c \in PlainChains, d \in {x \in Dirs : x.fc = 2},
        hp \in {"zero", "eleven", "far"} }

\* an entry whose data pointer is below the header size or past the data
BadPointerInputs ==
    { Layout(<<c, DirBlock(d)>>, <<1, 2>>, "true", <<adj, 0>>) :
        c \in PlainChains, d \in {x \in Dirs : x.fc = 2},
        adj \in {0 - 7, 0 - HEADER_SIZE, 200} }

\* buffers that end early
TruncatedInputs ==
    { SubSeq(b, 1, n) :
        b \in { Layout(<<c, DirBlock(d)>>, <<1, 2>>, "true", <<0, 0>>) :
                  c \in PlainChains, d \in {x \in Dirs : x.fc = 2} },
        n \in {0, 8} }
      \cup
    { SubSeq(b, 1, Len(b) - cut) :
        b \in { Layout(<<c, DirBlock(d)>>, <<1, 2>>, "true", <<0, 0>>) :
                  c \in PlainChains, d \in {x \in Dirs : x.fc = 2} },
        cut \in {3, 6, 20} }

Inputs ==
    TwoEntryInputs \cup SmallInputs \cup ThreeEntryInputs
      \cup BadHeaderInputs \cup BadPointerInputs \cup TruncatedInputs

\* the names looked up with get
Queries == { <<97>>, <<65>>, <<98>>, <<97, 66>>, <<122>> }

(* --------------------------- the state machine ------------------------ *)

VARIABLES
    input,            \* the buffer handed to load
    overflow_checks,  \* the build: TRUE panics on integer overflow, FALSE wraps
    pc,               \* "start", "map", "while", "loaded", "err", "panic",
                      \* "consumed", "aborted"
    header_,          \* Archive.header
    data,             \* the data region taken by `archive`
    entry_count,      \* Archive.entry_count
    entries,          \* Archive.entries
    idx,              \* the entry the map closure is working on
    offset,           \* the closure's offset
    bytes_remaining,  \* the closure's bytes_remaining
    blocks,           \* the closure's blocks
    call              \* the last facade call and what it returned

vars == <<input, overflow_checks, pc, header_, data, entry_count, entries,
          idx, offset, bytes_remaining, blocks, call>>

archive_vars == <<header_, data, entry_count, entries>>

walk_vars == <<idx, offset, bytes_remaining, blocks>>

NoCall == [op |-> "none", arg |-> <<>>, res |-> None]

Init ==
    /\ input \in Inputs
    /\ overflow_checks \in BOOLEAN
    /\ pc = "start"
    /\ header_ = TableErr.header
    /\ data = <<>>
    /\ entry_count = 0
    /\ entries = <<>>
    /\ idx = 1
    /\ offset = 0
    /\ bytes_remaining = 0
    /\ blocks = <<>>
    /\ call = NoCall

\* load -> parse -> archive, up to and including the sort
ParseTable ==
    /\ pc = "start"
    /\ LET t == archive_table(input, overflow_checks) IN
         /\ pc' = IF t.st = "ok" THEN "map" ELSE t.st
         /\ header_' = t.header
         /\ data' = t.data
         /\ entry_count' = t.entry_count
         /\ entries' = t.entries
    /\ UNCHANGED <<input, overflow_checks, walk_vars, call>>

\* the closure of the map starts on the next entry
MapBegin ==
    /\ pc = "map"
    /\ idx <= Len(entries)
    /\ LET o == sub_header_size(entries[idx].pointer, overflow_checks) IN
         IF o < 0
         THEN /\ pc' = "panic"
              /\ UNCHANGED <<offset, bytes_remaining, blocks>>
         ELSE /\ pc' = "while"
              /\ offset' = o
              /\ bytes_remaining' = entries[idx].uncompressed_size
              /\ blocks' = <<>>
    /\ UNCHANGED <<input, overflow_checks, archive_vars, idx, call>>

\* one iteration of `while bytes_remaining > 0`
WhileBody ==
    /\ pc = "while"
    /\ bytes_remaining > 0
    /\ LET b == IF offset > Len(data) THEN ParseErr
                ELSE block(Drop(data, offset)) IN
         IF ~b.ok
         THEN \* slice index out of range, or expect("Error parsing block")
              /\ pc' = "panic"
              /\ UNCHANGED <<offset, bytes_remaining, blocks>>
         ELSE IF b.val.uncompressed_size > bytes_remaining /\ overflow_checks
         THEN \* attempt to subtract with overflow
              /\ pc' = "panic"
              /\ offset' = advance(offset, b.val)
              /\ UNCHANGED <<bytes_remaining, blocks>>
         ELSE /\ pc' = "while"
              /\ offset' = advance(offset, b.val)
              /\ bytes_remaining' =
                     (bytes_remaining - b.val.uncompressed_size) % Modulus
              /\ blocks' = Append(blocks, b.val)
    /\ UNCHANGED <<input, overflow_checks, archive_vars, idx, call>>

\* the loop is left: e.blocks = Some(blocks)
MapEnd ==
    /\ pc = "while"
    /\ bytes_remaining = 0
    /\ entries' = [entries EXCEPT ![idx].blocks = SomeBlocks(blocks)]
    /\ idx' = idx + 1
    /\ pc' = "map"
    /\ UNCHANGED <<input, overflow_checks, header_, data, entry_count,
                   offset, bytes_remaining, blocks, call>>

\* collect() is complete: archive, parse and load return Ok
LoadOk ==
    /\ pc = "map"
    /\ idx > Len(entries)
    /\ pc' = "loaded"
    /\ UNCHANGED <<input, overflow_checks, archive_vars, walk_vars, call>>

Called(op, arg, res) ==
    /\ call' = [op |-> op, arg |-> arg, res |-> res]
    /\ pc' = IF res.tag = "panic" THEN "aborted"
             ELSE IF op = "files" THEN "consumed" ELSE "loaded"
    /\ UNCHANGED <<input, overflow_checks, archive_vars, walk_vars>>

CallFilenames ==
    /\ pc = "loaded"
    /\ Called("filenames", <<>>, filenames(entries))

CallGet ==
    /\ pc = "loaded"
    /\ \E q \in Queries : Called("get", q, get(entries, q))

\* files(self) takes the archive; the iterator is driven to its end
CallFiles ==
    /\ pc = "loaded"
    /\ Called("files", <<>>, files(entries))

Next ==
    \/ ParseTable
    \/ MapBegin
    \/ WhileBody
    \/ MapEnd
    \/ LoadOk
    \/ CallFilenames
    \/ CallGet
    \/ CallFiles

Spec == Init /\ [][Next]_vars

\* the loop is sequential code of one call: once entered, its next step is
\* taken
FairSpec == Spec /\ WF_vars(WhileBody \/ MapEnd)

(* ------------------------------ properties ---------------------------- *)

to_ascii_uppercase(b) == IF b >= 97 /\ b <= 122 THEN b - 32 ELSE b

\* every way of writing the name s in upper and lower case
CaseVariants(s) ==
    { [k \in 1..Len(s) |-> IF k \in U THEN to_ascii_uppercase(s[k])
                           ELSE to_ascii_lowercase(s[k])] :
        U \in SUBSET (1..Len(s)) }

RECURSIVE SumUncompressed(_)
SumUncompressed(bs) ==
    IF bs = <<>> THEN 0
    ELSE Head(bs).uncompressed_size + SumUncompressed(Tail(bs))

\* the block load is about to decode in the loop, when it decodes
NextBlock == IF offset > Len(data) THEN ParseErr ELSE block(Drop(data, offset))

\* C1: in an archive load returned, the declared uncompressed sizes of the
\* blocks of every entry add up to the entry's declared uncompressed_size.
C1_ChainSumsToDeclared ==
    pc = "loaded" =>
        \A i \in 1..Len(entries) :
            /\ entries[i].blocks.some
            /\ SumUncompressed(entries[i].blocks.seq)
                 = entries[i].uncompressed_size

\* C2: in an archive load returned, entries has entry_count elements and is
\* in ascending order of data pointer.
C2_EntriesCountedAndSorted ==
    pc = "loaded" =>
        /\ Len(entries) = entry_count
        /\ \A i, j \in 1..Len(entries) :
               i < j => entries[i].pointer <= entries[j].pointer

\* an archive was returned whose records were not in pointer order in the
\* buffer (the name hash of a record is its place in the table)
C2_Witness ==
    /\ pc = "loaded"
    /\ \E i, j \in 1..Len(entries) :
           i < j /\ entries[i].filename_crc > entries[j].filename_crc

\* C3: files() yields entry_count pairs; the i-th name is the i-th of
\* filenames() and the i-th bytes are what get returns for that name.
C3_FilesAgreeWithGet ==
    (call.op = "files" /\ call.res.tag = "ok") =>
        /\ Len(call.res.val) = entry_count
        /\ \A i \in 1..Len(call.res.val) :
               /\ call.res.val[i].name = filenames(entries).val[i]
               /\ Some(call.res.val[i].bytes)
                    = get(entries, call.res.val[i].name)

\* C4: get with a name of filenames() returns the same as get with any
\* case variation of that name.
C4_GetIgnoresCase ==
    (/\ call.op = "get"
     /\ filenames(entries).tag = "ok"
     /\ \E k \in 1..Len(filenames(entries).val) :
            filenames(entries).val[k] = call.arg) =>
        \A v \in CaseVariants(call.arg) : get(entries, v) = call.res

\* get returned the bytes of an entry for a two-letter name of the directory
C4_Witness ==
    /\ call.op = "get"
    /\ call.res.tag = "some"
    /\ Len(call.arg) = 2
    /\ \E k \in 1..Len(filenames(entries).val) :
           filenames(entries).val[k] = call.arg

C6_LowDirectoryPointerIsError ==
    (/\ pc # "start"
     /\ header(input).ok
     /\ header(input).val.pointer < HEADER_SIZE) =>
        pc = "err"

\* C7: a block whose compressed_size exceeds the bytes left in the data
\* region makes load return an error.
C7_ShortBlockIsError ==
    [][(/\ pc = "while"
        /\ bytes_remaining > 0
        /\ offset <= Len(data)
        /\ LET c == le_u32(Drop(data, offset)) IN
             /\ c.ok
             /\ le_u32(c.rest).ok
             /\ c.val > Len(le_u32(c.rest).rest)) =>
           pc' = "err"]_vars

\* C8: a block whose uncompressed_size exceeds the entry's remaining count
\* makes load return an error.
C8_OversizeBlockIsError ==
    [][(/\ pc = "while"
        /\ bytes_remaining > 0
        /\ NextBlock.ok
        /\ NextBlock.val.uncompressed_size > bytes_remaining) =>
           pc' = "err"]_vars

\* C9: filenames() does not return a list when the file_count of the
\* directory payload differs from entry_count.
C9_FileCountMismatchFails ==
    (/\ call.op = "filenames"
     /\ entries # <<>>
     /\ decompress(entries[Len(entries)]).tag = "ok"
     /\ le_u32(decompress(entries[Len(entries)]).val).ok
     /\ le_u32(decompress(entries[Len(entries)]).val).val # entry_count) =>
        call.res.tag # "ok"

\* C10: the walk of an entry's block chain ends: every iteration moves the
\* offset forward by at least 8 and keeps it inside the data region, and
\* the loop is left, by reaching zero or by a failed block.
C10_WalkTerminates ==
    /\ [][(pc = "while" /\ bytes_remaining > 0 /\ pc' = "while") =>
             /\ offset' = offset + BLOCK_HEADER_SIZE
                            + NextBlock.val.compressed_size
             /\ offset' >= offset + BLOCK_HEADER_SIZE
             /\ offset' <= Len(data)]_vars
    /\ (pc = "while") ~> (pc # "while")

\* a walk that went over a block declaring zero uncompressed bytes is over
C10_Witness ==
    /\ pc = "map"
    /\ idx > 1
    /\ \E k \in 1..Len(entries[idx - 1].blocks.seq) :
           entries[idx - 1].blocks.seq[k].uncompressed_size = 0

====
